---- MODULE Spec2Model ----
(***************************************************************************)
(* Raster-to-SVG rendering of Koppen-Geiger class grids, as implemented by *)
(* presentation_assets/images/create_vector_koppen_svg.py and the          *)
(* multi-panel layouts create_final_scientific_koppen.py,                  *)
(* create_scientific_koppen_maps.py and create_condensed_legend_koppen.py. *)
(*                                                                         *)
(* Geographic coordinates are integers in units of 0.01 degree, areas are  *)
(* integers in units of 0.0001 square degree, canvas coordinates are exact *)
(* rationals <<numerator, denominator>> with a positive denominator.       *)
(***************************************************************************)
EXTENDS Integers, Sequences, FiniteSets, TLC

VARIABLES
    script,      \* which script runs: its thresholds, canvas, legend table
    data,        \* the class grid read from the raster window: [Cells -> code]
    cell,        \* pixel size <<width, height>> of the raster transform
    tif_exists,  \* per panel: does the raster file exist
    show_sites,  \* argument show_sites
    show_labels, \* argument show_labels
    pc,          \* position of the run
    panel,       \* index i of the panel loop (0-based, as enumerate)
    todo,        \* class values of the current panel still to process, ascending
    geo,         \* west, south, east, north of the current panel, or Unset
    y_offset,    \* the local y_offset of the layout functions, or Unset
    doc,         \* drawables added to the svgwrite Drawing, in order
    log,         \* diagnostics printed
    saved,       \* TRUE once dwg.save() ran
    args,        \* a function on its own: its arguments (coords_to_svg,
                 \* create_svg_path) or the locals of the class workers
    out,         \* a function on its own: the value returned, or Unset; the
                 \* positions of the class workers
    fault,       \* the library call that raises in this run: <<>> for none,
                 \* <<class, "trace">>, <<class, "merge">> or <<class, "path">>
    swapped,     \* the panels (0-based) whose file holds the mirrored raster
    test_results \* run_notebook_tests: the dict test_results, check name to
                 \* outcome; empty in the runs of the map scripts

vars == <<script, data, cell, tif_exists, show_sites, show_labels, pc, panel,
          todo, geo, y_offset, doc, log, saved, args, out, fault, swapped,
                   test_results>>

Unset == <<>>

-----------------------------------------------------------------------------
(* Exact arithmetic standing for the float arithmetic of the scripts.      *)

Abs(n) == IF n < 0 THEN -n ELSE n

\* the element of a one-element set; The({e(x) : x \in {v}}) is e with x
\* bound to the value of v
The(S) == CHOOSE x \in S : TRUE

\* the set S with its elements listed
Listed(S) == {x : x \in S}

RECURSIVE GCD(_, _)
GCD(a, b) == IF b = 0 THEN a ELSE The({ GCD(b, r) : r \in {a % b} })

\* the rational n/d in lowest terms with a positive denominator (d # 0)
Rat(n, d) ==
    The({ The({ <<(s * nv) \div g, (s * dv) \div g>>
                : g \in {GCD(Abs(nv), Abs(dv))}, s \in {IF dv < 0 THEN -1 ELSE 1} })
          : nv \in {n}, dv \in {d} })

RatInt(n) == <<n, 1>>
RatSub(a, b) == The({ Rat(x[1] * y[2] - y[1] * x[2], x[2] * y[2]) : x \in {a}, y \in {b} })
RatAdd(a, b) == The({ Rat(x[1] * y[2] + y[1] * x[2], x[2] * y[2]) : x \in {a}, y \in {b} })
RatMul(a, b) == The({ Rat(x[1] * y[1], x[2] * y[2]) : x \in {a}, y \in {b} })
RatDiv(a, b) == The({ Rat(x[1] * y[2], x[2] * y[1]) : x \in {a}, y \in {b} })
RatLt(a, b)  == The({ x[1] * y[2] < y[1] * x[2] : x \in {a}, y \in {b} })
RatIsZero(a) == a[1] = 0

ZeroDivisionError == <<"ZeroDivisionError">>

-----------------------------------------------------------------------------
(* coords_to_svg: geographic coordinates to SVG coordinates.  All eight    *)
(* arguments are rationals; a zero-width or zero-height window raises.     *)

\* a faulty variant: y measured from the south edge (no inversion)
coords_to_svg_no_flip(lon, lat, west, east, north, south, svg_width, svg_height) ==
    The({ IF RatIsZero(dx) \/ RatIsZero(dy) THEN ZeroDivisionError
          ELSE <<RatMul(RatDiv(RatSub(lon, west), dx), svg_width),
                 RatMul(RatDiv(RatSub(lat, south), dy), svg_height)>>
          : dx \in {RatSub(east, west)}, dy \in {RatSub(north, south)} })

\* a faulty variant: both axes scaled by svg_width
coords_to_svg_square(lon, lat, west, east, north, south, svg_width, svg_height) ==
    The({ IF RatIsZero(dx) \/ RatIsZero(dy) THEN ZeroDivisionError
          ELSE <<RatMul(RatDiv(RatSub(lon, west), dx), svg_width),
                 RatMul(RatDiv(RatSub(north, lat), dy), svg_width)>>
          : dx \in {RatSub(east, west)}, dy \in {RatSub(north, south)} })

\* a faulty variant: the canvas coordinates are cut to whole pixels
coords_to_svg_whole(lon, lat, west, east, north, south, svg_width, svg_height) ==
    The({ IF RatIsZero(dx) \/ RatIsZero(dy) THEN ZeroDivisionError
          ELSE The({ <<RatInt(x[1] \div x[2]), RatInt(y[1] \div y[2])>>
                     : x \in {RatMul(RatDiv(RatSub(lon, west), dx), svg_width)},
                       y \in {RatMul(RatDiv(RatSub(north, lat), dy), svg_height)} })
          : dx \in {RatSub(east, west)}, dy \in {RatSub(north, south)} })

coords_to_svg(lon, lat, west, east, north, south, svg_width, svg_height) ==
    The({ IF RatIsZero(dx) \/ RatIsZero(dy) THEN ZeroDivisionError
          ELSE <<RatMul(RatDiv(RatSub(lon, west), dx), svg_width),
                 RatMul(RatDiv(RatSub(north, lat), dy), svg_height)>>
          : dx \in {RatSub(east, west)}, dy \in {RatSub(north, south)} })

-----------------------------------------------------------------------------
(* The raster window.  The window is GridRows x GridCols pixels; its       *)
(* top-left corner is the corner of from_bounds(10.0, -35.0, 40.0, -5.0).  *)

GridRows == 4
GridCols == 4

Cells == (0 .. GridRows - 1) \X (0 .. GridCols - 1)

WindowWest  == 1000     \* 10.0 degrees east
WindowNorth == -500     \* -5.0 degrees north

\* class codes the model feeds in: no data, a mapped class that the legends
\* list (Af), a mapped class that no legend lists (Csc), an unmapped value
NoData == 0
Codes  == {0, 1, 10, 31}

\* transform * (col, row) of the window transform
GeoX(col) == WindowWest + col * cell[1]
GeoY(row) == WindowNorth - row * cell[2]

-----------------------------------------------------------------------------
(* rasterio.features.shapes(mask, mask=mask, transform=transform) with the *)
(* default connectivity 4, and shapely's shape(): one polygon per maximal  *)
(* 4-connected region of mask cells, with an exterior ring and one         *)
(* interior ring per enclosed region.  Rings are closed (the first vertex  *)
(* is repeated at the end) and hold a vertex only where the boundary       *)
(* turns.  Vertices are <<lon, lat>>.                                      *)

\* a faulty variant: pixels that touch at a corner count as neighbours
Neighbors4_with_corners(p) ==
    {<<p[1] + a, p[2] + b>> : a \in {-1, 0, 1}, b \in {-1, 0, 1}} \ {p}

Neighbors4(p) ==
    {<<p[1] - 1, p[2]>>, <<p[1] + 1, p[2]>>, <<p[1], p[2] - 1>>, <<p[1], p[2] + 1>>}

RECURSIVE Grow(_, _)
Grow(S, M) ==
    The({ IF N = S THEN S ELSE Grow(N, M)
          : N \in {Listed(S \cup {q \in M : Neighbors4(q) \cap S # {}})} })

\* first cell in row-major order
MinCell(S) ==
    CHOOSE p \in S : \A q \in S : p[1] < q[1] \/ (p[1] = q[1] /\ p[2] <= q[2])

\* the maximal 4-connected regions of M, in row-major order of first cell
RECURSIVE Components(_)
Components(M) ==
    IF M = {} THEN <<>>
    ELSE The({ The({ <<c>> \o Components(rest) : rest \in {Listed(M \ c)} })
               : c \in {Grow({MinCell(M)}, M)} })

\* the unit boundary edges of region S, directed clockwise on the screen
\* (S on the right hand); a pixel corner is <<row, col>>
BoundaryEdges(S) ==
    UNION { (IF <<p[1] - 1, p[2]>> \notin S
                THEN {<< <<p[1], p[2]>>, <<p[1], p[2] + 1>> >>} ELSE {})
            \cup
            (IF <<p[1], p[2] + 1>> \notin S
                THEN {<< <<p[1], p[2] + 1>>, <<p[1] + 1, p[2] + 1>> >>} ELSE {})
            \cup
            (IF <<p[1] + 1, p[2]>> \notin S
                THEN {<< <<p[1] + 1, p[2] + 1>>, <<p[1] + 1, p[2]>> >>} ELSE {})
            \cup
            (IF <<p[1], p[2] - 1>> \notin S
                THEN {<< <<p[1] + 1, p[2]>>, <<p[1], p[2]>> >>} ELSE {})
          : p \in S }

Dir(e) == <<e[2][1] - e[1][1], e[2][2] - e[1][2]>>

\* turning right from direction d (clockwise on the screen)
RightOf(d) == <<d[2], -d[1]>>

\* the edge that continues the walk after edge e: where the boundary
\* touches itself at a corner the walk keeps to the pixel it is following
NextEdge(E, e) ==
    The({ IF \E f \in outs : Dir(f) = RightOf(Dir(e))
          THEN CHOOSE f \in outs : Dir(f) = RightOf(Dir(e))
          ELSE CHOOSE f \in outs : TRUE
          : outs \in {{f \in E : f[1] = e[2]}} })

\* the closed walk of unit edges that starts with edge e0
RECURSIVE WalkFrom(_, _, _)
WalkFrom(E, e0, e) ==
    The({ IF f = e0 THEN <<e>> ELSE <<e>> \o WalkFrom(E, e0, f)
          : f \in {NextEdge(E, e)} })

\* the outer boundary walk of a 4-connected region S
OuterWalk(S) ==
    The({ WalkFrom(E, << p, <<p[1], p[2] + 1>> >>, << p, <<p[1], p[2] + 1>> >>)
          : p \in {MinCell(S)}, E \in {BoundaryEdges(S)} })

\* the corners of a walk: the start vertices of the edges that turn
RECURSIVE Corners(_, _)
Corners(w, i) ==
    IF i > Len(w) THEN <<>>
    ELSE LET prev == IF i = 1 THEN w[Len(w)] ELSE w[i - 1]
         IN  (IF Dir(prev) # Dir(w[i]) THEN <<w[i][1]>> ELSE <<>>)
             \o Corners(w, i + 1)

\* a faulty variant: a vertex at every pixel corner of the walk
RingOf_every_pixel(w) ==
    LET g(v) == <<GeoX(v[2]), GeoY(v[1])>>
    IN  [i \in 1 .. Len(w) + 1 |-> IF i <= Len(w) THEN g(w[i][1]) ELSE g(w[1][1])]

\* the closed ring of a walk, in geographic coordinates
RingOf(w) ==
    LET g(v) == <<GeoX(v[2]), GeoY(v[1])>>
    IN  The({ [i \in 1 .. Len(cs) + 1 |-> IF i <= Len(cs) THEN g(cs[i]) ELSE g(cs[1])]
              : cs \in {Corners(w, 1)} })

\* the pixels a walk encloses (even-odd rule on its vertical edges)
Enclosed(w) ==
    Listed({p \in Cells :
        Cardinality({i \in 1 .. Len(w) :
            /\ w[i][1][2] = w[i][2][2]
            /\ w[i][1][2] > p[2]
            /\ (IF w[i][1][1] < w[i][2][1] THEN w[i][1][1] ELSE w[i][2][1]) = p[1]})
        % 2 = 1})

\* shape(geom) for the region S: a shapely Polygon
RECURSIVE HoleRings(_)
HoleRings(hs) ==
    IF hs = <<>> THEN <<>>
    ELSE The({ <<RingOf(w)>> : w \in {OuterWalk(Head(hs))} }) \o HoleRings(Tail(hs))

PolygonOf(S) ==
    The({ [cells     |-> S,
           exterior  |-> RingOf(w),
           interiors |-> HoleRings(Components(Listed(Enclosed(w) \ S)))]
          : w \in {OuterWalk(S)} })

\* shapes(mask, mask=mask, transform=transform): the polygons of a mask
RECURSIVE PolygonsOf(_)
PolygonsOf(cs) ==
    IF cs = <<>> THEN <<>>
    ELSE <<PolygonOf(Head(cs))>> \o PolygonsOf(Tail(cs))

shapes(mask) ==
    The({ The({ PolygonsOf(cs) : cs \in {Components(M)} }) : M \in {mask} })

\* twice the signed area of a closed ring (shoelace)
RECURSIVE Shoelace(_, _)
Shoelace(ring, i) ==
    IF i >= Len(ring) THEN 0
    ELSE ring[i][1] * ring[i + 1][2] - ring[i + 1][1] * ring[i][2]
         + Shoelace(ring, i + 1)

RingArea(ring) == Abs(Shoelace(ring, 1)) \div 2

RECURSIVE SumRingAreas(_)
SumRingAreas(rings) ==
    IF rings = <<>> THEN 0
    ELSE RingArea(Head(rings)) + SumRingAreas(Tail(rings))

\* polygon.area: the exterior's area less the holes', in 0.0001 square degree
area(polygon) == RingArea(polygon.exterior) - SumRingAreas(polygon.interiors)

\* unary_union(polygons): pixels that share an edge fuse, regions that only
\* touch at a corner stay separate members of the MultiPolygon
RECURSIVE CellsOf(_)
CellsOf(polygons) ==
    IF polygons = <<>> THEN {}
    ELSE Listed(Head(polygons).cells \cup CellsOf(Tail(polygons)))

\* a faulty variant: the merged polygons lose their holes
unary_union_filled(polygons) ==
    The({ The({ [i \in 1 .. Len(ps) |-> [ps[i] EXCEPT !.interiors = <<>>]]
                : ps \in {PolygonsOf(Components(M))} })
          : M \in {CellsOf(polygons)} })

\* a faulty variant: the input list is returned as it is
unary_union_concat(polygons) == polygons

\* a faulty variant: only the region of the first polygon is kept
unary_union_first(polygons) ==
    IF polygons = <<>> THEN <<>> ELSE PolygonsOf(Components(Head(polygons).cells))

unary_union(polygons) ==
    The({ The({ PolygonsOf(cs) : cs \in {Components(M)} }) : M \in {CellsOf(polygons)} })

-----------------------------------------------------------------------------
(* Module-level tables and per-script settings.                            *)

Scripts == {"vector", "final", "scientific", "condensed", "svg_maps"}
Layouts == {"final", "scientific", "condensed"}
\* the scripts that draw one map per call and save it
SingleMaps == {"vector", "svg_maps"}

study_sites ==
    << [name |-> "Cape Town",    lat |-> <<-339249, 100>>, lon |-> <<184241, 100>>, len |-> 9],
       [name |-> "Mount Darwin", lat |-> <<-167833, 100>>, lon |-> <<315833, 100>>, len |-> 12],
       [name |-> "Blantyre",     lat |-> <<-157870, 100>>, lon |-> <<350055, 100>>, len |-> 8] >>

koppen_colors_vector ==
    << "#0000FF", "#0078FF", "#46AAFA", "#FF0000", "#FF9696", "#F5A500",
       "#FFDC64", "#FFFF00", "#C8C800", "#969600", "#96FF96", "#64C864",
       "#329632", "#C8FF50", "#64FF50", "#32C800", "#FF00FF", "#C800C8",
       "#963296", "#966496", "#AABFFF", "#5A78DC", "#4B50B4", "#320087",
       "#00FFFF", "#37C8FF", "#007D7D", "#00465F", "#B2B2B2", "#666666" >>

\* create_final_scientific_koppen.py and create_condensed_legend_koppen.py
koppen_colors_final ==
    [koppen_colors_vector EXCEPT ![1] = "#0000FE"]

koppen_colors_scientific ==
    << "#0f4c75", "#3282b8", "#bbe1fa", "#dc143c", "#ff6b6b", "#ff8c00",
       "#ffdd44", "#90ee90", "#32cd32", "#228b22", "#98fb98", "#66cdaa",
       "#2e8b57", "#7fff00", "#adff2f", "#9acd32", "#ff00ff", "#ba55d3",
       "#9370db", "#8a2be2", "#87ceeb", "#4682b4", "#1e90ff", "#0000cd",
       "#00ffff", "#40e0d0", "#008b8b", "#2f4f4f", "#d3d3d3", "#696969" >>

\* create_koppen_svg_maps.py: the colours of koppen_legend, as it writes them
koppen_legend ==
    <<"rgb(0,0,255)", "rgb(0,120,255)", "rgb(70,170,250)", "rgb(255,0,0)",
       "rgb(255,150,150)", "rgb(245,165,0)", "rgb(255,220,100)", "rgb(255,255,0)",
       "rgb(200,200,0)", "rgb(150,150,0)", "rgb(150,255,150)", "rgb(100,200,100)",
       "rgb(50,150,50)", "rgb(200,255,80)", "rgb(100,255,80)", "rgb(50,200,0)",
       "rgb(255,0,255)", "rgb(200,0,200)", "rgb(150,50,150)", "rgb(150,100,150)",
       "rgb(170,175,255)", "rgb(90,120,220)", "rgb(75,80,180)", "rgb(50,0,135)",
       "rgb(0,255,255)", "rgb(55,200,255)", "rgb(0,125,125)", "rgb(0,70,95)",
       "rgb(178,178,178)", "rgb(102,102,102)" >>

\* the dict koppen_colors of the running script: its keys are DOMAIN
koppen_colors ==
    CASE script = "vector"     -> koppen_colors_vector
      [] script = "scientific" -> koppen_colors_scientific
      [] script = "svg_maps"   -> koppen_legend
      [] OTHER                 -> koppen_colors_final

\* legend_data (final) and legend_groups (scientific): groups of <<code, value>>
legend_data ==
    << << <<"Af", 1>>, <<"Am", 2>>, <<"Aw", 3>> >>,
       << <<"BWh", 4>>, <<"BWk", 5>>, <<"BSh", 6>>, <<"BSk", 7>> >>,
       << <<"Csa", 8>>, <<"Csb", 9>>, <<"Cwa", 11>>, <<"Cwb", 12>>,
          <<"Cfa", 14>>, <<"Cfb", 15>> >>,
       << <<"Dwa", 21>>, <<"Dwb", 22>>, <<"Dfa", 25>>, <<"Dfb", 26>> >>,
       << <<"ET", 29>>, <<"EF", 30>> >> >>

condensed_legend ==
    << << <<"Af", 1>>, <<"Am", 2>>, <<"Aw", 3>> >>,
       << <<"BWh", 4>>, <<"BWk", 5>>, <<"BSh", 6>>, <<"BSk", 7>> >>,
       << <<"Csa", 8>>, <<"Csb", 9>>, <<"Cwa", 11>>, <<"Cwb", 12>>,
          <<"Cfa", 14>>, <<"Cfb", 15>> >>,
       << <<"ET", 29>> >> >>

LegendTable == IF script = "condensed" THEN condensed_legend ELSE legend_data

\* svg_width, svg_height (vector) or map_width, map_height (layouts)
map_width ==
    CASE script = "vector" -> 1200 [] script = "scientific" -> 500
      [] script = "svg_maps" -> 800 [] OTHER -> 600

map_height ==
    CASE script = "vector" -> 900 [] script = "final" -> 700
      [] script \in {"scientific", "svg_maps"} -> 600 [] OTHER -> 650

\* x_offset and y_offset of panel i (0 for the single-map script)
XOffset(i) ==
    CASE script \in SingleMaps -> 0
      [] script = "scientific" -> 50 + i * (500 + 50)
      [] OTHER                 -> 50 + i * (600 + 60)

YOffset ==
    CASE script \in SingleMaps -> 0 [] script = "final" -> 80 + 40
      [] script = "scientific" -> 50 + 50 [] OTHER -> 80

\* "if poly.area > 0.01" (vector, scientific) or "> 0.005" (final, condensed),
\* in 0.0001 square degree
MinFragmentArea == IF script \in {"vector", "scientific"} THEN 100 ELSE 50

\* "polygon.area < 0.001" in create_svg_path, in 0.0001 square degree
MinPathArea == 10

\* decimals of the path coordinates: :.2f in vector, :.1f in the layouts
Precision == IF script = "vector" THEN 2 ELSE 1

\* the number of panels the loop visits: zip(tif_paths, titles, scenario_colors)
NumTitles == 3
NumPanels == IF Len(tif_exists) < NumTitles THEN Len(tif_exists) ELSE NumTitles

-----------------------------------------------------------------------------
(* create_svg_path: a shapely polygon to SVG path data.  The path data is  *)
(* the sequence of its commands, <<"M", x, y>>, <<"L", x, y>> and <<"Z">>, *)
(* with x and y the printed decimals as integers (x = 12.50 is 1250 at     *)
(* two decimals).                                                          *)

\* Python's None, and every other falsy return ("if svg_path:")
None == <<>>

RECURSIVE Pow10(_)
Pow10(k) == IF k = 0 THEN 1 ELSE 10 * Pow10(k - 1)

\* f"{v:.kf}": the rational v rounded to k decimals, ties to even
FormatFixed(v, k) ==
    The({ The({ IF 2 * (n - q * d) < d THEN q
                ELSE IF 2 * (n - q * d) > d THEN q + 1
                ELSE IF q % 2 = 0 THEN q ELSE q + 1
                : q \in {n \div d} })
          : n \in {v[1] * Pow10(k)}, d \in {v[2]} })

\* a faulty variant: every vertex written with 'M'
create_svg_path_reopen(polygon, west, east, north, south, svg_width, svg_height) ==
    LET xy(v) == coords_to_svg(RatInt(v[1]), RatInt(v[2]), RatInt(west), RatInt(east),
                               RatInt(north), RatInt(south), RatInt(svg_width),
                               RatInt(svg_height))
        pt(v) == The({ <<FormatFixed(c[1], Precision), FormatFixed(c[2], Precision)>>
                       : c \in {xy(v)} })
    IN  The({ IF poly.cells = {} \/ area(poly) < MinPathArea THEN None
              ELSE IF poly.exterior = <<>> THEN None
              ELSE IF xy(poly.exterior[1]) = ZeroDivisionError THEN None
              ELSE [i \in 1 .. Len(poly.exterior) + 1 |->
                      IF i = Len(poly.exterior) + 1 THEN <<"Z">>
                      ELSE <<"M">> \o pt(poly.exterior[i])]
              : poly \in {polygon} })

create_svg_path(polygon, west, east, north, south, svg_width, svg_height) ==
    LET xy(v) == coords_to_svg(RatInt(v[1]), RatInt(v[2]), RatInt(west), RatInt(east),
                               RatInt(north), RatInt(south), RatInt(svg_width),
                               RatInt(svg_height))
        pt(v) == The({ <<FormatFixed(c[1], Precision), FormatFixed(c[2], Precision)>>
                       : c \in {xy(v)} })
    IN  The({ IF poly.cells = {} \/ area(poly) < MinPathArea THEN None
              ELSE IF poly.exterior = <<>> THEN None
              ELSE IF xy(poly.exterior[1]) = ZeroDivisionError THEN None
              ELSE [i \in 1 .. Len(poly.exterior) + 1 |->
                      IF i = Len(poly.exterior) + 1 THEN <<"Z">>
                      ELSE <<(IF i = 1 THEN "M" ELSE "L")>> \o pt(poly.exterior[i])]
              : poly \in {polygon} })

-----------------------------------------------------------------------------
(* The loop body over climate values: mask, shapes, the fragment filter,   *)
(* unary_union, create_svg_path, dwg.add(dwg.path(...)).                   *)

\* a faulty variant: the comparison is >= instead of ==
Mask_at_least(grid, climate_value) == Listed({p \in Cells : grid[p] >= climate_value})

\* mask = (data == climate_value)
Mask(grid, climate_value) == Listed({p \in Cells : grid[p] = climate_value})

\* sorted(np.unique(data[data > 0]))
RECURSIVE SortedSeq(_)
SortedSeq(S) ==
    IF S = {} THEN <<>>
    ELSE LET m == CHOOSE x \in S : \A y \in S : x <= y
         IN  <<m>> \o SortedSeq(S \ {m})

ClimateValues(grid) == SortedSeq({v \in {grid[p] : p \in Cells} : v > NoData})

\* a faulty variant: no fragment is filtered out
KeepFragment_all(poly) == area(poly) > 0

\* "if poly.area > 0.01": the fragments kept for the merge
KeepFragment(poly) == area(poly) > MinFragmentArea

Fragments(grid, climate_value) ==
    The({ SelectSeq(ps, KeepFragment) : ps \in {shapes(Mask(grid, climate_value))} })

\* the dwg.path(...) drawables of the members of merged, in order
RECURSIVE PathsOf(_, _, _)
PathsOf(merged, climate_value, i) ==
    IF merged = <<>> THEN <<>>
    ELSE The({ IF svg_path # None
               THEN << [kind  |-> "path", panel |-> i, class |-> climate_value,
                        fill  |-> koppen_colors[climate_value], d |-> svg_path,
                        tx    |-> XOffset(i), ty |-> YOffset] >>
               ELSE <<>>
               : svg_path \in {IF fault = <<climate_value, "path">> THEN None
                                ELSE create_svg_path(Head(merged), geo.west,
                                                     geo.east, geo.north, geo.south,
                                                     map_width, map_height)} })
         \o PathsOf(Tail(merged), climate_value, i)

\* the iteration in which shape(geom) raises while the fragments are collected
TraceRaises(grid, climate_value) ==
    /\ fault = <<climate_value, "trace">>
    /\ climate_value \in DOMAIN koppen_colors
    /\ Mask(grid, climate_value) # {}

\* create_vectorized_svg collects the fragments before its try statement, so
\* the exception leaves the function; the layout scripts collect them inside
ZoneAborts(grid, climate_value) ==
    script = "vector" /\ TraceRaises(grid, climate_value)

\* everything one iteration of the loop adds to the drawing; when the body of
\* the try statement raises, the except clause ends the iteration with nothing
\* added
ZoneDrawables(grid, climate_value, i) ==
    IF climate_value \in DOMAIN koppen_colors /\ ~TraceRaises(grid, climate_value)
    THEN The({ IF polygons # <<>> /\ fault # <<climate_value, "merge">>
               THEN The({ PathsOf(merged, climate_value, i)
                          : merged \in {unary_union(polygons)} })
               ELSE <<>>
               : polygons \in {Fragments(grid, climate_value)} })
    ELSE <<>>

\* print(f"Error processing climate zone {climate_value}: {e}")
ZoneErrorMsg ==
    IF script = "vector" THEN "Error processing climate zone" ELSE "Error processing zone"

\* the except clause of create_svg_path: it prints in create_vector_koppen_svg
\* and is silent in the layout scripts
PathErrorLog ==
    IF script = "vector" THEN << [msg |-> "Error creating SVG path"] >> ELSE <<>>

RECURSIVE Repeat(_, _)
Repeat(sq, n) == IF n = 0 THEN <<>> ELSE sq \o Repeat(sq, n - 1)

\* what one iteration of the loop prints: the except clause of the loop body
\* once, or the except clause of create_svg_path once for each merged polygon
ZoneDiagnostics(grid, climate_value) ==
    IF climate_value \notin DOMAIN koppen_colors THEN <<>>
    ELSE IF TraceRaises(grid, climate_value)
    THEN << [msg |-> ZoneErrorMsg, class |-> climate_value] >>
    ELSE The({ IF polygons = <<>> THEN <<>>
               ELSE IF fault = <<climate_value, "merge">>
                    THEN << [msg |-> ZoneErrorMsg, class |-> climate_value] >>
               ELSE IF fault = <<climate_value, "path">>
                    THEN Repeat(PathErrorLog, Len(unary_union(polygons)))
               ELSE <<>>
               : polygons \in {Fragments(grid, climate_value)} })

-----------------------------------------------------------------------------
(* Study sites, titles and the legend.                                     *)

\* the pixel size at which the window spans the 30 x 30 degrees of
\* from_bounds(10.0, -35.0, 40.0, -5.0)
WindowCell == <<3000 \div GridCols, 3000 \div GridRows>>

\* the pixel <<row, col>> that holds a site when the pixels have size cs
SiteCellAt(site, cs) ==
    << (WindowNorth * site.lat[2] - site.lat[1]) \div (cs[2] * site.lat[2]),
       (site.lon[1] - WindowWest * site.lon[2]) \div (cs[1] * site.lon[2]) >>

\* a faulty variant: the sites are placed without the inversion of the
\* vertical axis
SiteDrawables_unflipped(site, i) ==
    LET xy == coords_to_svg_no_flip(site.lon, site.lat, RatInt(geo.west),
                                    RatInt(geo.east), RatInt(geo.north),
                                    RatInt(geo.south), RatInt(map_width),
                                    RatInt(map_height))
        cx == RatAdd(RatInt(XOffset(i)), xy[1])
        cy == RatAdd(RatInt(YOffset), xy[2])
    IN  << [kind |-> "circle", panel |-> i, site |-> site.name, cx |-> cx, cy |-> cy] >>
        \o (IF ~show_labels THEN <<>>
            ELSE IF script = "svg_maps"
               THEN << [kind |-> "label_text", panel |-> i, site |-> site.name,
                        cx |-> cx, cy |-> RatSub(cy, RatInt(15))] >>
               ELSE << [kind |-> "label_rect", panel |-> i, site |-> site.name,
                        cx |-> cx, cy |-> cy],
                       [kind |-> "label_text", panel |-> i, site |-> site.name,
                        cx |-> cx, cy |-> RatSub(cy, RatInt(12))] >>)

\* the circle of a site and, if asked for, its label rectangle and text
SiteDrawables(site, i) ==
    LET xy == coords_to_svg(site.lon, site.lat, RatInt(geo.west), RatInt(geo.east),
                            RatInt(geo.north), RatInt(geo.south),
                            RatInt(map_width), RatInt(map_height))
        cx == RatAdd(RatInt(XOffset(i)), xy[1])
        cy == RatAdd(RatInt(YOffset), xy[2])
    IN  << [kind |-> "circle", panel |-> i, site |-> site.name, cx |-> cx, cy |-> cy] >>
        \o (IF ~show_labels THEN <<>>
            ELSE IF script = "svg_maps"
               THEN << [kind |-> "label_text", panel |-> i, site |-> site.name,
                        cx |-> cx, cy |-> RatSub(cy, RatInt(15))] >>
               ELSE << [kind |-> "label_rect", panel |-> i, site |-> site.name,
                        cx |-> cx, cy |-> cy],
                       [kind |-> "label_text", panel |-> i, site |-> site.name,
                        cx |-> cx, cy |-> RatSub(cy, RatInt(12))] >>)

\* a faulty variant: a site outside the window is left out
RECURSIVE SitesFrom_clipped(_, _)
SitesFrom_clipped(k, i) ==
    IF k > Len(study_sites) THEN <<>>
    ELSE (IF SiteCellAt(study_sites[k], cell) \in Cells
             THEN SiteDrawables(study_sites[k], i) ELSE <<>>)
         \o SitesFrom_clipped(k + 1, i)

RECURSIVE SitesFrom(_, _)
SitesFrom(k, i) ==
    IF k > Len(study_sites) THEN <<>>
    ELSE SiteDrawables(study_sites[k], i) \o SitesFrom(k + 1, i)

\* the title box and title text of the map (vector) or of panel i (layouts)
TitleDrawables(i) ==
    IF script = "svg_maps" THEN << [kind |-> "title_text", panel |-> i] >>
    ELSE << [kind |-> "title_rect", panel |-> i], [kind |-> "title_text", panel |-> i] >>

\* create_svg_from_tif: one rectangle for each pixel whose value is > 0 and
\* a key of koppen_legend, row by row; k counts the pixels in row-major order
RECURSIVE PixelRects(_, _)
PixelRects(grid, k) ==
    IF k >= GridRows * GridCols THEN <<>>
    ELSE LET i == k \div GridCols
             j == k % GridCols
             value == grid[<<i, j>>]
         IN  (IF value > NoData /\ value \in DOMAIN koppen_legend
                 THEN << [kind |-> "rect", panel |-> 0, class |-> value,
                          fill |-> koppen_legend[value],
                          x |-> Rat(j * map_width, GridCols),
                          y |-> Rat(i * map_height, GridRows),
                          width |-> Rat(map_width, GridCols),
                          height |-> Rat(map_height, GridRows)] >>
                 ELSE <<>>)
             \o PixelRects(grid, k + 1)

\* the swatch and text of the legend items of one group
RECURSIVE LegendItems(_)
LegendItems(items) ==
    IF items = <<>> THEN <<>>
    ELSE LET value == Head(items)[2]
         IN  (IF value \in DOMAIN koppen_colors
                 THEN << [kind |-> "legend_swatch", class |-> value,
                          fill |-> koppen_colors[value]],
                         [kind |-> "legend_text", class |-> value,
                          code |-> Head(items)[1]] >>
                 ELSE <<>>)
             \o LegendItems(Tail(items))

RECURSIVE LegendGroups(_, _)
LegendGroups(table, k) ==
    IF k > Len(table) THEN <<>>
    ELSE << [kind |-> "legend_group", group |-> k] >>
         \o LegendItems(table[k]) \o LegendGroups(table, k + 1)

LegendDrawables ==
    << [kind |-> "legend_title"] >> \o LegendGroups(LegendTable, 1)
    \o << [kind |-> "citation"] >>

\* what the drawing holds before the first panel is read
InitialDoc(sc) ==
    CASE sc \in SingleMaps -> <<>>
      [] sc = "scientific" -> << [kind |-> "background"] >>
      [] sc = "condensed"  -> << [kind |-> "background"], [kind |-> "main_title"] >>
      [] OTHER             -> << [kind |-> "background"], [kind |-> "main_title"],
                                 [kind |-> "subtitle"] >>

\* the frame of a panel, added right after the raster is read
FrameDrawables(i) ==
    CASE script \in SingleMaps -> << [kind |-> "background"] >>
      [] script = "scientific" -> << [kind |-> "map_background", panel |-> i] >>
      [] OTHER                 -> << [kind |-> "map_border", panel |-> i] >>

-----------------------------------------------------------------------------
(* Inputs of a run.                                                        *)

\* the zero grid with the rectangle r1..r2 x c1..c2 set to class a
RectGrid(r1, r2, c1, c2, a) ==
    [p \in Cells |-> IF p[1] \in r1 .. r2 /\ p[2] \in c1 .. c2 THEN a ELSE NoData]

\* the grids whose rectangle r1..r2 x c1..c2 holds class 1: the rectangle
\* alone; with one pixel more or less (a notch, a hole, a second fragment);
\* with its first pixel or the last pixel of the window set to a second
\* class or to an unmapped value
GridsOf(r1, r2, c1, c2) ==
    { [RectGrid(r1, r2, c1, c2, 1) EXCEPT ![p] = b] : p \in Cells, b \in {NoData, 1} }
    \cup { [RectGrid(r1, r2, c1, c2, 1) EXCEPT ![p] = b]
              : p \in {<<r1, c1>>, <<GridRows - 1, GridCols - 1>>}, b \in Codes }

\* class grids: the rectangles that start in the first two rows and columns,
\* and the 2 x 2 blocks anywhere
Grids ==
    UNION { GridsOf(r1, r2, c1, c2) : r1 \in {0, 1}, r2 \in 0 .. GridRows - 1,
                                      c1 \in {0, 1}, c2 \in 0 .. GridCols - 1 }
    \cup { RectGrid(r1, r1 + 1, c1, c1 + 1, 1)
              : r1 \in 0 .. GridRows - 2, c1 \in 0 .. GridCols - 2 }

\* the grids whose fragments have areas at the thresholds when the pixels
\* are small: the rectangles of at most 2 x 3 pixels in the corner of the
\* window
ThresholdGrids ==
    UNION { GridsOf(0, r2, 0, c2) : r2 \in 0 .. 1, c2 \in 0 .. 2 }

\* the grids the panel and overlay combinations are run on
PanelGrids ==
    { RectGrid(0, r2, 0, r2, a) : r2 \in {0, GridRows - 1}, a \in {1, 10} }

\* (show_sites, show_labels) of the three calls main makes
Overlays == {<<TRUE, FALSE>>, <<TRUE, TRUE>>, <<FALSE, FALSE>>}

\* every value the parameters (show_sites, show_labels) can be given
FlagChoices == BOOLEAN \X BOOLEAN

\* pixel sizes: 1 degree, 0.1 degree, 0.1 x 0.05 degree
CellSizes == {<<100, 100>>, <<10, 10>>, <<10, 5>>}

\* tif_paths, as the existence of each file; the list may be short or long
MaxPaths == 3
ExistsChoices == UNION { [1 .. n -> BOOLEAN] : n \in 0 .. MaxPaths }

InitRunOn(sc, g, cs, ex, ss, sl, ft, sw) ==
    /\ fault = ft
    /\ swapped = sw
    /\ test_results = <<>>
    /\ script = sc
    /\ data = g
    /\ cell = cs
    /\ tif_exists = ex
    /\ show_sites = ss
    /\ show_labels = sl
    /\ pc = "open"
    /\ panel = 0
    /\ todo = <<>>
    /\ geo = Unset
    /\ y_offset = Unset
    /\ doc = InitialDoc(sc)
    /\ log = <<>>
    /\ saved = FALSE
    /\ args = Unset
    /\ out = Unset

InitRunWith(sc, g, cs, ex, ss, sl, ft) == InitRunOn(sc, g, cs, ex, ss, sl, ft, {})

InitRun(sc, g, cs, ex, ss, sl) == InitRunWith(sc, g, cs, ex, ss, sl, <<>>)

\* the raster with its columns in reverse order
Mirrored(g) == [p \in Cells |-> g[<<p[1], GridCols - 1 - p[2]>>]]

\* rasters that differ from their mirror image
PeriodGrids ==
    { RectGrid(0, 0, 0, 0, 1), [RectGrid(0, 1, 0, 1, 1) EXCEPT ![<<0, 0>>] = 10] }

\* which of the files hold the mirrored raster
SwapChoices == { {1}, {0, 2} }

\* the pixels of the study sites in the 30 degree window
SiteCells == {SiteCellAt(study_sites[k], WindowCell) : k \in 1 .. Len(study_sites)}

\* grids with class 1 under one study site, or under all of them
SiteGrids ==
    { RectGrid(p[1], p[1], p[2], p[2], 1) : p \in SiteCells }
    \cup { [q \in Cells |-> IF q \in SiteCells THEN 1 ELSE NoData] }

\* two-class grids for the runs in which a library call raises
FaultGrids ==
    { [RectGrid(0, 1, 0, 1, 1) EXCEPT ![p] = 10]
         : p \in {<<0, 0>>, <<GridRows - 1, GridCols - 1>>} }

\* the class whose processing raises, and where: in shape(geom), in
\* unary_union or inside create_svg_path
Faults == {1, 10} \X {"trace", "merge", "path"}

Init ==
    \/ \E g \in Grids :
            InitRun("vector", g, <<100, 100>>, <<TRUE>>, TRUE, TRUE)
    \/ \E g \in ThresholdGrids, cs \in CellSizes :
            InitRun("vector", g, cs, <<TRUE>>, TRUE, TRUE)
    \/ \E g \in ThresholdGrids :
            InitRun("final", g, <<10, 5>>, <<TRUE>>, TRUE, TRUE)
    \/ \E sc \in Scripts, g \in PanelGrids, ov \in FlagChoices :
       \E ex \in (IF sc \in SingleMaps THEN {<<TRUE>>} ELSE ExistsChoices) :
            InitRun(sc, g, <<100, 100>>, ex, ov[1], ov[2])
    \/ \E g \in GridsOf(0, 1, 0, 1) :
            InitRun("svg_maps", g, <<10, 10>>, <<TRUE>>, TRUE, FALSE)
    \/ \E sc \in Scripts, g \in SiteGrids :
            InitRun(sc, g, WindowCell, <<TRUE>>, TRUE, FALSE)
    \/ \E sc \in Layouts, g \in PeriodGrids, sw \in SwapChoices :
       \E ex \in [1 .. NumTitles -> BOOLEAN] :
            InitRunOn(sc, g, <<100, 100>>, ex, TRUE, FALSE, <<>>, sw)
    \/ \E sc \in Scripts \ {"svg_maps"}, g \in FaultGrids, ft \in Faults :
            InitRunWith(sc, g, <<100, 100>>, <<TRUE>>, FALSE, FALSE, ft)

-----------------------------------------------------------------------------
(* The run.  create_vectorized_svg draws one map; the layout functions     *)
(* loop over the panels and then write the legend.                         *)

\* the raster of panel i: the grid data, or its mirror image
Raster(i) == IF i \in swapped THEN Mirrored(data) ELSE data

\* "if not os.path.exists(tif_path): continue"
SkipPanel ==
    /\ pc = "open"
    /\ script \in Layouts
    /\ panel < NumPanels
    /\ ~tif_exists[panel + 1]
    /\ log' = IF script = "scientific"
                 THEN Append(log, [msg |-> "Skipping", panel |-> panel])
                 ELSE log
    /\ panel' = panel + 1
    /\ UNCHANGED <<script, data, cell, tif_exists, show_sites, show_labels, pc,
                   todo, geo, y_offset, doc, saved, args, out, fault, swapped,
                   test_results>>

\* rasterio.open ... the bounds, the offsets, the frame of the map
OpenRaster ==
    /\ pc = "open"
    /\ panel < NumPanels
    /\ tif_exists[panel + 1]
    /\ geo' = [west  |-> GeoX(0), north |-> GeoY(0),
               east  |-> GeoX(GridCols), south |-> GeoY(GridRows)]
    /\ y_offset' = <<YOffset>>
    /\ doc' = doc \o FrameDrawables(panel)
    /\ todo' = IF script = "svg_maps" THEN <<>> ELSE ClimateValues(Raster(panel))
    /\ pc' = IF script = "svg_maps" THEN "pixels" ELSE "zones"
    /\ UNCHANGED <<script, data, cell, tif_exists, show_sites, show_labels, panel,
                   log, saved, args, out, fault, swapped,
                   test_results>>

\* a faulty variant: the raster read for the first panel is kept for the
\* panels after it
ProcessZone_stale_raster ==
    /\ pc = "zones"
    /\ todo # <<>>
    /\ IF ZoneAborts(Raster(0), Head(todo))
       THEN /\ pc' = "error"
            /\ UNCHANGED <<doc, log, todo>>
       ELSE /\ doc' = doc \o ZoneDrawables(Raster(0), Head(todo), panel)
            /\ log' = log \o ZoneDiagnostics(Raster(0), Head(todo))
            /\ todo' = Tail(todo)
            /\ UNCHANGED pc
    /\ UNCHANGED <<script, data, cell, tif_exists, show_sites, show_labels,
                   panel, geo, y_offset, saved, args, out, fault, swapped,
                   test_results>>

\* one iteration of "for climate_value in sorted(np.unique(data[data > 0]))"
ProcessZone ==
    /\ pc = "zones"
    /\ todo # <<>>
    /\ IF ZoneAborts(Raster(panel), Head(todo))
       THEN /\ pc' = "error"
            /\ UNCHANGED <<doc, log, todo>>
       ELSE /\ doc' = doc \o ZoneDrawables(Raster(panel), Head(todo), panel)
            /\ log' = log \o ZoneDiagnostics(Raster(panel), Head(todo))
            /\ todo' = Tail(todo)
            /\ UNCHANGED pc
    /\ UNCHANGED <<script, data, cell, tif_exists, show_sites, show_labels,
                   panel, geo, y_offset, saved, args, out, fault, swapped,
                   test_results>>

\* "for i in range(height): for j in range(width):" of create_svg_from_tif
DrawPixels ==
    /\ pc = "pixels"
    /\ doc' = doc \o PixelRects(Raster(panel), 0)
    /\ pc' = "drawn"
    /\ UNCHANGED <<script, data, cell, tif_exists, show_sites, show_labels, panel,
                   todo, geo, y_offset, log, saved, args, out, fault, swapped,
                   test_results>>

\* a faulty variant: the labels bring the sites with them
FinishPanel_labels_alone ==
    /\ \/ pc = "zones" /\ todo = <<>>
       \/ pc = "drawn"
    /\ doc' = doc \o (IF show_sites \/ show_labels THEN SitesFrom(1, panel) ELSE <<>>)
                  \o TitleDrawables(panel)
    /\ panel' = panel + 1
    /\ pc' = IF script \in SingleMaps THEN "done" ELSE "open"
    /\ saved' = (script \in SingleMaps)
    /\ UNCHANGED <<script, data, cell, tif_exists, show_sites, show_labels, todo,
                   geo, y_offset, log, args, out, fault, swapped,
                   test_results>>

\* the study sites and the title of the map; the single map is then saved
FinishPanel ==
    /\ \/ pc = "zones" /\ todo = <<>>
       \/ pc = "drawn"
    /\ doc' = doc \o (IF show_sites THEN SitesFrom(1, panel) ELSE <<>>)
                  \o TitleDrawables(panel)
    /\ panel' = panel + 1
    /\ pc' = IF script \in SingleMaps THEN "done" ELSE "open"
    /\ saved' = (script \in SingleMaps)
    /\ UNCHANGED <<script, data, cell, tif_exists, show_sites, show_labels, todo,
                   geo, y_offset, log, args, out, fault, swapped,
                   test_results>>

\* after the loop: the legend, the citation, dwg.save().  The legend of
\* final and condensed is placed below y_offset, a local that only a
\* processed panel assigns
WriteLegend ==
    /\ pc = "open"
    /\ script \in Layouts
    /\ panel = NumPanels
    /\ IF script \in {"final", "condensed"} /\ y_offset = Unset
       THEN /\ pc' = "error"
            /\ log' = Append(log, [msg |-> "UnboundLocalError", panel |-> panel])
            /\ UNCHANGED <<doc, saved>>
       ELSE /\ pc' = "done"
            /\ doc' = doc \o LegendDrawables
            /\ saved' = TRUE
            /\ UNCHANGED log
    /\ UNCHANGED <<script, data, cell, tif_exists, show_sites, show_labels, panel,
                   todo, geo, y_offset, args, out, fault, swapped,
                   test_results>>

Next ==
    \/ SkipPanel
    \/ OpenRaster
    \/ ProcessZone
    \/ DrawPixels
    \/ FinishPanel
    \/ WriteLegend

Spec == Init /\ [][Next]_vars

-----------------------------------------------------------------------------
(* The projector on its own: coords_to_svg applied to one point after      *)
(* another, for every window and canvas of the bounded sets, the invalid   *)
(* ones included.                                                          *)

ProjSteps == 2
ProjCoords == {5 * k - 5 : k \in 0 .. ProjSteps + 1}
CanvasSizes == {<<100, 100>>, <<1200, 900>>, <<0, -100>>}

InitProj ==
    /\ script = "vector"
    /\ data = RectGrid(0, 0, 0, 0, 1)
    /\ cell = <<100, 100>>
    /\ tif_exists = <<TRUE>>
    /\ show_sites = TRUE
    /\ show_labels = TRUE
    /\ pc = "projector"
    /\ fault = <<>>
    /\ swapped = {}
    /\ test_results = <<>>
    /\ panel = 0
    /\ todo = <<>>
    /\ geo = Unset
    /\ y_offset = Unset
    /\ doc = <<>>
    /\ log = <<>>
    /\ saved = FALSE
    /\ \E lon \in ProjCoords, lat \in ProjCoords, west \in ProjCoords,
          east \in ProjCoords, north \in ProjCoords, south \in ProjCoords,
          size \in CanvasSizes :
            args = [lon |-> lon, lat |-> lat, west |-> west, east |-> east,
                    north |-> north, south |-> south,
                    svg_width |-> size[1], svg_height |-> size[2]]
    /\ out = Unset

\* coords_to_svg on the integer arguments a
Projected(a) ==
    coords_to_svg(RatInt(a.lon), RatInt(a.lat), RatInt(a.west), RatInt(a.east),
                  RatInt(a.north), RatInt(a.south), RatInt(a.svg_width),
                  RatInt(a.svg_height))

\* x, y = coords_to_svg(...)
Project ==
    /\ pc = "projector"
    /\ out = Unset
    /\ out' = Projected(args)
    /\ UNCHANGED <<script, data, cell, tif_exists, show_sites, show_labels, pc,
                   panel, todo, geo, y_offset, doc, log, saved, args, fault, swapped,
                   test_results>>

\* the caller moves on to its next vertex or site
NextPoint ==
    /\ pc = "projector"
    /\ out # Unset
    /\ \/ \E lon \in ProjCoords : args' = [args EXCEPT !.lon = lon]
       \/ \E lat \in ProjCoords : args' = [args EXCEPT !.lat = lat]
    /\ out' = Unset
    /\ UNCHANGED <<script, data, cell, tif_exists, show_sites, show_labels, pc,
                   panel, todo, geo, y_offset, doc, log, saved, fault, swapped,
                   test_results>>

NextProj == Project \/ NextPoint

SpecProj == InitProj /\ [][NextProj]_vars

-----------------------------------------------------------------------------
(* The serializer on its own: create_svg_path applied to one polygon after *)
(* another.  args holds the polygon and the window, out the path data.     *)

\* the window of the scripts (10E..40E, 35S..5S) and the whole globe
SerWindows ==
    { [west |-> WindowWest, east |-> 4000, north |-> WindowNorth, south |-> -3500],
      [west |-> -18000, east |-> 18000, north |-> 9000, south |-> -9000] }

\* the polygon of the rectangle w wide and h high with upper left corner (x, y)
Strip(x, y, w, h) ==
    [cells     |-> {<<0, 0>>},
     exterior  |-> << <<x, y>>, <<x, y - h>>, <<x + w, y - h>>, <<x + w, y>>, <<x, y>> >>,
     interiors |-> <<>>]

\* rectangles 0.01 or 1 degree wide and 0.05, 0.1 or 1 degree high
SerPolygons ==
    { Strip(x, y, w, h) : x \in {1000, 1003}, y \in {-500, -1000},
                          w \in {1, 100}, h \in {5, 10, 100} }

InitSer ==
    /\ script \in Scripts \ {"svg_maps"}
    /\ data = RectGrid(0, 0, 0, 0, 1)
    /\ cell = <<100, 100>>
    /\ tif_exists = <<TRUE>>
    /\ show_sites = TRUE
    /\ show_labels = TRUE
    /\ pc = "serializer"
    /\ fault = <<>>
    /\ swapped = {}
    /\ test_results = <<>>
    /\ panel = 0
    /\ todo = <<>>
    /\ geo = Unset
    /\ y_offset = Unset
    /\ doc = <<>>
    /\ log = <<>>
    /\ saved = FALSE
    /\ \E w \in SerWindows :
          args = [polygon |-> Strip(WindowWest, WindowNorth, 100, 100),
                  west |-> w.west, east |-> w.east,
                  north |-> w.north, south |-> w.south]
    /\ out = Unset

\* svg_path = create_svg_path(poly, west, east, north, south, map_width, map_height)
Serialize ==
    /\ pc = "serializer"
    /\ out' = create_svg_path(args.polygon, args.west, args.east, args.north,
                              args.south, map_width, map_height)
    /\ pc' = "serialized"
    /\ UNCHANGED <<script, data, cell, tif_exists, show_sites, show_labels,
                   panel, todo, geo, y_offset, doc, log, saved, args, fault, swapped,
                   test_results>>

\* the caller moves on to its next polygon
NextPolygon ==
    /\ pc = "serialized"
    /\ \E poly \in SerPolygons : args' = [args EXCEPT !.polygon = poly]
    /\ out' = Unset
    /\ pc' = "serializer"
    /\ UNCHANGED <<script, data, cell, tif_exists, show_sites, show_labels,
                   panel, todo, geo, y_offset, doc, log, saved, fault, swapped,
                   test_results>>

NextSer == Serialize \/ NextPolygon

SpecSer == InitSer /\ [][NextSer]_vars

-----------------------------------------------------------------------------
(* The class chains of one map as workers.  Each worker runs the body of   *)
(* the loop for its class value step by step: mask, shapes and filter,     *)
(* unary_union, then the paths appended to the drawing.  args holds the    *)
(* locals mask, polygons and merged_poly of every worker, out the position *)
(* of every worker, doc the drawing they append to.                        *)

\* a faulty variant: the workers share the one set of locals of the function
Own_shared(climate_value) == 0

\* the locals a worker uses: its own
Own(climate_value) == climate_value

\* one worker for each value of np.unique(data[data > 0])
Workers == {data[p] : p \in Cells} \ {NoData}

\* rasters with three classes, and with a value that koppen_colors lacks
WorkerGrids ==
    { [[RectGrid(0, 1, 0, 1, 1) EXCEPT ![<<0, 0>>] = a]
          EXCEPT ![<<GridRows - 1, GridCols - 1>>] = 10] : a \in {2, 31} }

NoLocals == [mask |-> {}, polygons |-> <<>>, merged_poly |-> <<>>]

InitWorkers ==
    /\ script \in {"vector", "final"}
    /\ data \in WorkerGrids
    /\ cell = <<100, 100>>
    /\ tif_exists = <<TRUE>>
    /\ show_sites = FALSE
    /\ show_labels = FALSE
    /\ pc = "workers"
    /\ fault = <<>>
    /\ swapped = {}
    /\ test_results = <<>>
    /\ panel = 0
    /\ todo = <<>>
    /\ geo = [west  |-> GeoX(0), north |-> GeoY(0),
              east  |-> GeoX(GridCols), south |-> GeoY(GridRows)]
    /\ y_offset = <<YOffset>>
    /\ doc = <<>>
    /\ log = <<>>
    /\ saved = FALSE
    /\ args = [v \in {0} \cup Workers |-> NoLocals]
    /\ out = [v \in Workers |-> "start"]

\* what no step of a worker changes
WorkerFrame ==
    UNCHANGED <<script, data, cell, tif_exists, show_sites, show_labels, pc,
                panel, todo, geo, y_offset, log, saved, fault, swapped,
                   test_results>>

\* "if climate_value in koppen_colors" fails: the iteration does nothing
SkipClass ==
    \E v \in Workers :
        /\ pc = "workers" /\ out[v] = "start"
        /\ v \notin DOMAIN koppen_colors
        /\ out' = [out EXCEPT ![v] = "done"]
        /\ UNCHANGED <<args, doc>>
        /\ WorkerFrame

\* mask = (data == climate_value)
MaskStep ==
    \E v \in Workers :
        /\ pc = "workers" /\ out[v] = "start"
        /\ v \in DOMAIN koppen_colors
        /\ args' = [args EXCEPT ![Own(v)].mask = Mask(data, v)]
        /\ out' = [out EXCEPT ![v] = "masked"]
        /\ UNCHANGED doc
        /\ WorkerFrame

\* polygons: the shapes of mask with value 1 and area above the threshold
TraceStep ==
    \E v \in Workers :
        /\ pc = "workers" /\ out[v] = "masked"
        /\ args' = [args EXCEPT ![Own(v)].polygons =
                                    SelectSeq(shapes(args[Own(v)].mask), KeepFragment)]
        /\ out' = [out EXCEPT ![v] = "traced"]
        /\ UNCHANGED doc
        /\ WorkerFrame

\* "if polygons: merged_poly = unary_union(polygons)"
MergeStep ==
    \E v \in Workers :
        /\ pc = "workers" /\ out[v] = "traced"
        /\ args' = [args EXCEPT ![Own(v)].merged_poly =
                                    IF args[Own(v)].polygons = <<>> THEN <<>>
                                    ELSE unary_union(args[Own(v)].polygons)]
        /\ out' = [out EXCEPT ![v] = "merged"]
        /\ UNCHANGED doc
        /\ WorkerFrame

\* dwg.add(dwg.path(...)) for every member of merged_poly
EmitStep ==
    \E v \in Workers :
        /\ pc = "workers" /\ out[v] = "merged"
        /\ doc' = doc \o PathsOf(args[Own(v)].merged_poly, v, 0)
        /\ out' = [out EXCEPT ![v] = "done"]
        /\ UNCHANGED args
        /\ WorkerFrame

NextWorkers == SkipClass \/ MaskStep \/ TraceStep \/ MergeStep \/ EmitStep

SpecWorkers == InitWorkers /\ [][NextWorkers]_vars

-----------------------------------------------------------------------------
(* run_notebook_tests of test_johannesburg_notebook.py: seven checks, each *)
(* a try block that records True, with an "except Exception" that records  *)
(* False, and a summary.  Here pc is the check about to run, args the set  *)
(* of local names the import statements have bound, out the value          *)
(* returned, and fault the exceptions of the run: the import statement     *)
(* that raises (0 for none) and the checks in whose try block a call       *)
(* raises.                                                                 *)

Range(f) == {f[i] : i \in DOMAIN f}

\* the keys of test_results in the order the checks run
CheckNames == <<"imports", "gee", "study_area", "temperature_analyzer",
                "visualization", "export", "interactive_map">>

\* the local name each import statement of check 1 binds, in order
ImportedNames == <<"np", "pd", "plt", "sns", "stats", "LinearRegression",
                   "StandardScaler", "r2_score", "warnings", "geemap", "ee",
                   "datetime", "px", "go", "make_subplots", "GridSpec">>

\* "if passed_tests >= 5"
CoreTests == 5

\* the checks after the imports: a call in their try block may raise
RaisingChoices == SUBSET (Range(CheckNames) \ {"imports"})

InitTests ==
    /\ script = "notebook_tests"
    /\ data = RectGrid(0, 0, 0, 0, 1)
    /\ cell = <<100, 100>>
    /\ tif_exists = <<TRUE>>
    /\ show_sites = FALSE
    /\ show_labels = FALSE
    /\ pc = "imports"
    /\ \E k \in 0 .. Len(ImportedNames), r \in RaisingChoices :
            fault = [import |-> k, raising |-> r]
    /\ swapped = {}
    /\ panel = 0
    /\ todo = <<>>
    /\ geo = Unset
    /\ y_offset = Unset
    /\ doc = <<>>
    /\ log = <<>>
    /\ saved = FALSE
    /\ args = {}
    /\ out = Unset
    /\ test_results = <<>>

\* what no step of run_notebook_tests changes
TestFrame ==
    UNCHANGED <<script, data, cell, tif_exists, show_sites, show_labels, panel,
                todo, geo, y_offset, doc, log, saved, fault, swapped>>

\* test_results[name] = passed
Record(name, passed) == test_results @@ (name :> passed)

\* test_results.get(name, False)
Get(name) == IF name \in DOMAIN test_results THEN test_results[name] ELSE FALSE

\* every name of ns is a bound local: no UnboundLocalError
Bound(ns) == ns \subseteq args

\* Test 1: the import statements run in order up to the one that raises
TestImports ==
    /\ pc = "imports"
    /\ args' = {ImportedNames[n] : n \in 1 .. (IF fault.import = 0
                                                THEN Len(ImportedNames)
                                                ELSE fault.import - 1)}
    /\ test_results' = Record("imports", fault.import = 0)
    /\ pc' = "gee"
    /\ UNCHANGED out
    /\ TestFrame

\* Test 2: ee.Initialize and a first request
TestGEE ==
    /\ pc = "gee"
    /\ test_results' = Record("gee", Bound({"ee"}) /\ "gee" \notin fault.raising)
    /\ pc' = "study_area"
    /\ UNCHANGED <<args, out>>
    /\ TestFrame

\* Test 3: the study area dict and, with GEE, its ee.Geometry objects
TestStudyArea ==
    /\ pc = "study_area"
    /\ test_results' = Record("study_area", "study_area" \notin fault.raising)
    /\ pc' = "temperature_analyzer"
    /\ UNCHANGED <<args, out>>
    /\ TestFrame

\* Test 4: the analyzer on its example data; binds temperature_stats and
\* uhi_day before it records True
TestTemperatureAnalyzer ==
    /\ pc = "temperature_analyzer"
    /\ \A ok \in {"temperature_analyzer" \notin fault.raising} :
          /\ test_results' = Record("temperature_analyzer", ok)
          /\ args' = IF ok THEN args \cup {"temperature_stats", "uhi_day"} ELSE args
    /\ pc' = "visualization"
    /\ UNCHANGED out
    /\ TestFrame

\* Test 5: a matplotlib figure on a GridSpec
TestVisualization ==
    /\ pc = "visualization"
    /\ test_results' = Record("visualization",
                              /\ Bound({"plt", "GridSpec", "np"})
                              /\ "visualization" \notin fault.raising)
    /\ pc' = "export"
    /\ UNCHANGED <<args, out>>
    /\ TestFrame

\* Test 6: the export, made only "if test_results.get('temperature_analyzer',
\* False)", else recorded as False
TestExport ==
    /\ pc = "export"
    /\ test_results' = Record("export",
                              /\ Get("temperature_analyzer")
                              /\ Bound({"pd", "temperature_stats", "uhi_day",
                                        "datetime"})
                              /\ "export" \notin fault.raising)
    /\ pc' = "interactive_map"
    /\ UNCHANGED <<args, out>>
    /\ TestFrame

\* a faulty variant: the map is tried whatever the GEE check recorded
TestInteractiveMap_unguarded ==
    /\ pc = "interactive_map"
    /\ \A ok \in {/\ Get("study_area")
                  /\ "interactive_map" \notin fault.raising} :
          /\ test_results' = Record("interactive_map", ok)
          /\ args' = IF ok THEN args \cup {"geemap"} ELSE args
    /\ pc' = "summary"
    /\ UNCHANGED out
    /\ TestFrame

\* Test 7: the map, made only "if test_results.get('gee', False) and
\* test_results.get('study_area', False)", else recorded as False
TestInteractiveMap ==
    /\ pc = "interactive_map"
    /\ \A ok \in {/\ Get("gee") /\ Get("study_area")
                  /\ "interactive_map" \notin fault.raising} :
          /\ test_results' = Record("interactive_map", ok)
          /\ args' = IF ok THEN args \cup {"geemap"} ELSE args
    /\ pc' = "summary"
    /\ UNCHANGED out
    /\ TestFrame

\* passed_tests = sum(test_results.values())
passed_tests == Cardinality({c \in DOMAIN test_results : test_results[c]})

\* total_tests = len(test_results)
total_tests == Cardinality(DOMAIN test_results)

\* the summary: "return True" if passed_tests >= 5, else "return False"
Summary ==
    /\ pc = "summary"
    /\ out' = (passed_tests >= CoreTests)
    /\ pc' = "returned"
    /\ UNCHANGED <<args, test_results>>
    /\ TestFrame

NextTests ==
    \/ TestImports
    \/ TestGEE
    \/ TestStudyArea
    \/ TestTemperatureAnalyzer
    \/ TestVisualization
    \/ TestExport
    \/ TestInteractiveMap
    \/ Summary

SpecTests == InitTests /\ [][NextTests]_vars

-----------------------------------------------------------------------------
(* Properties of the projector.                                            *)

ValidProjection(a) ==
    a.west < a.east /\ a.south < a.north /\ a.svg_width > 0 /\ a.svg_height > 0

\* C1: for a window with west < east and south < north and a canvas with
\* W > 0 and H > 0, the value coords_to_svg returns is exactly
\* x = (lon - west) / (east - west) * W and y = (north - lat) / (north - south) * H,
\* whatever points were projected before: x * (east - west) = (lon - west) * W
\* and y * (north - south) = (north - lat) * H.
C1_ProjectionFormula ==
    (pc = "projector" /\ out # Unset /\ ValidProjection(args)) =>
        /\ out # ZeroDivisionError
        /\ out[1][2] > 0 /\ out[2][2] > 0
        /\ out[1][1] * (args.east - args.west)
              = (args.lon - args.west) * args.svg_width * out[1][2]
        /\ out[2][1] * (args.north - args.south)
              = (args.north - args.lat) * args.svg_height * out[2][2]

\* a point strictly inside a valid window has been projected off both axes
C1_Witness ==
    /\ pc = "projector" /\ out # Unset /\ ValidProjection(args)
    /\ args.west < args.lon /\ args.lon < args.east
    /\ args.south < args.lat /\ args.lat < args.north
    /\ args.svg_width # args.svg_height

\* C6: for a valid window and canvas the vertical axis is inverted: y grows
\* as lat falls and x grows as lon grows; with bounds (0, 0, 10, 10) and a
\* 100 x 100 canvas (lon 0, lat 10) maps to (0, 0) and (lon 0, lat 0) to (0, 100).
C6_VerticalInversion ==
    (pc = "projector" /\ out # Unset /\ ValidProjection(args)) =>
        /\ \A lat \in ProjCoords :
              lat < args.lat =>
                  RatLt(out[2], Projected([args EXCEPT !.lat = lat])[2])
        /\ \A lon \in ProjCoords :
              lon > args.lon =>
                  RatLt(out[1], Projected([args EXCEPT !.lon = lon])[1])
        /\ (/\ args.west = 0 /\ args.south = 0 /\ args.east = 10 /\ args.north = 10
            /\ args.svg_width = 100 /\ args.svg_height = 100 /\ args.lon = 0) =>
              /\ args.lat = 10 => out = <<RatInt(0), RatInt(0)>>
              /\ args.lat = 0  => out = <<RatInt(0), RatInt(100)>>

\* the south-west corner of the example window has been projected
C6_Witness ==
    /\ pc = "projector" /\ out # Unset
    /\ args.west = 0 /\ args.south = 0 /\ args.east = 10 /\ args.north = 10
    /\ args.svg_width = 100 /\ args.svg_height = 100
    /\ args.lon = 0 /\ args.lat = 0

-----------------------------------------------------------------------------
(* Properties of the drawing.                                              *)

\* the positions of the path drawables of the drawing
PathIndices == {k \in 1 .. Len(doc) : doc[k].kind = "path"}

\* the centre of pixel p on the canvas of a map
CellCentre(p) ==
    coords_to_svg(Rat(2 * GeoX(p[2]) + cell[1], 2), Rat(2 * GeoY(p[1]) - cell[2], 2),
                  RatInt(geo.west), RatInt(geo.east), RatInt(geo.north),
                  RatInt(geo.south), RatInt(map_width), RatInt(map_height))

\* the filled area of path data d holds the centre of pixel p: a ray from
\* the centre to the right crosses the outline an odd number of times (the
\* outline of a pixel region has only horizontal and vertical edges)
PathCovers(d, p) ==
    LET c == CellCentre(p)
        unit == Pow10(Precision)
        n == Len(d) - 1
        to(i) == IF i = n THEN d[1] ELSE d[i + 1]
        lo(i) == IF d[i][3] < to(i)[3] THEN d[i][3] ELSE to(i)[3]
        hi(i) == IF d[i][3] < to(i)[3] THEN to(i)[3] ELSE d[i][3]
    IN  Cardinality({ i \in 1 .. n :
            /\ d[i][2] = to(i)[2]
            /\ d[i][2] * c[1][2] > c[1][1] * unit
            /\ lo(i) * c[2][2] < c[2][1] * unit
            /\ c[2][1] * unit < hi(i) * c[2][2] }) % 2 = 1

\* the merged polygons of the class the zone loop is about to draw
MergedNow == unary_union(Fragments(Raster(panel), Head(todo)))

\* the number of sub-paths of path data d
SubPaths(d) == Cardinality({i \in 1 .. Len(d) : d[i][1] = "M"})

\* C2: no path of the drawing covers a pixel whose value is the no-data
\* code 0.
C2_NoDataNeverCovered ==
    \A k \in PathIndices : \A p \in Cells :
        Raster(doc[k].panel)[p] = NoData => ~PathCovers(doc[k].d, p)

\* C4: a merged polygon with hole rings is serialized with one sub-path for
\* its outer ring and one more for each hole, so that no pixel of another
\* class inside the outer ring is filled.
C4_HolesAreSubPaths ==
    (pc = "zones" /\ todo # <<>>) =>
        \A poly \in Range(MergedNow) :
            LET d == create_svg_path(poly, geo.west, geo.east, geo.north, geo.south,
                                     map_width, map_height)
            IN  (poly.interiors # <<>> /\ d # None) =>
                    /\ SubPaths(d) = 1 + Len(poly.interiors)
                    /\ \A p \in Cells \ poly.cells : ~PathCovers(d, p)

\* C5: once the zone loop of a map has ended, every class code > 0 of its
\* grid has a path in the drawing, a code without an entry in the colour
\* table included (pixels of one degree, so that no area filter applies).
C5_UnmappedCodeDrawn ==
    (pc = "zones" /\ todo = <<>> /\ cell = <<100, 100>>) =>
        \A p \in Cells :
            Raster(panel)[p] > NoData =>
                \E k \in PathIndices :
                    doc[k].panel = panel /\ doc[k].class = Raster(panel)[p]

\* the vertices path data d names
Vertices(d) == {<<d[i][2], d[i][3]>> : i \in 1 .. Len(d) - 1}

\* MOVE(x,y) (LINE(x,y))* CLOSE
Grammar(d) ==
    /\ Len(d) >= 2
    /\ d[1][1] = "M" /\ Len(d[1]) = 3
    /\ d[Len(d)] = <<"Z">>
    /\ \A i \in 2 .. Len(d) - 1 : d[i][1] = "L" /\ Len(d[i]) = 3

\* the printed canvas position of ring vertex v on a canvas of the map's size
Printed(v) ==
    LET c == coords_to_svg(RatInt(v[1]), RatInt(v[2]), RatInt(geo.west),
                           RatInt(geo.east), RatInt(geo.north), RatInt(geo.south),
                           RatInt(map_width), RatInt(map_height))
    IN  <<FormatFixed(c[1], Precision), FormatFixed(c[2], Precision)>>

\* C3: every path string create_svg_path produces is one 'M' for the first
\* vertex of the outer ring, one 'L' for each later vertex in ring order and
\* one closing 'Z', with no 'M' or 'Z' in between; so is the path data of
\* every path of the drawing.
C3_PathGrammar ==
    /\ \A k \in PathIndices : Grammar(doc[k].d)
    /\ (pc = "zones" /\ todo # <<>>) =>
          \A poly \in Range(MergedNow) :
              LET d == create_svg_path(poly, geo.west, geo.east, geo.north,
                                       geo.south, map_width, map_height)
              IN  d # None =>
                      /\ Grammar(d)
                      /\ Len(d) = Len(poly.exterior) + 1
                      /\ \A i \in 1 .. Len(poly.exterior) :
                            <<d[i][2], d[i][3]>> = Printed(poly.exterior[i])

\* a path with more vertices than a rectangle has been drawn
C3_Witness == \E k \in PathIndices : Len(doc[k].d) > 6

\* the printed position of the pixel corner <<row, col>> on a w x h canvas
\* that shows the whole window
CornerOn(v, w, h) ==
    <<FormatFixed(Rat(w * v[2], GridCols), Precision),
      FormatFixed(Rat(h * v[1], GridRows), Precision)>>

BlockCorners(r1, c1) == {r1, r1 + 2} \X {c1, c1 + 2}

\* C7: a grid of one-degree pixels that holds one 2 x 2 block of class 1 and
\* 0 elsewhere is drawn as exactly one path, filled with the colour of
\* class 1, whose outer ring has the 4 projected corners of the block as its
\* vertices; on a 200 x 200 canvas create_svg_path gives the merged polygon
\* the same 4 corners.
C7_EndToEndBlock ==
    (pc = "done" /\ script = "vector" /\ cell = <<100, 100>>) =>
        \A r1 \in 0 .. GridRows - 2, c1 \in 0 .. GridCols - 2 :
            data = RectGrid(r1, r1 + 1, c1, c1 + 1, 1) =>
                LET merged == unary_union(Fragments(data, 1))
                    d200 == create_svg_path(merged[1], geo.west, geo.east,
                                            geo.north, geo.south, 200, 200)
                IN  /\ Cardinality(PathIndices) = 1
                    /\ \A k \in PathIndices :
                          /\ doc[k].class = 1
                          /\ doc[k].fill = koppen_colors[1]
                          /\ Grammar(doc[k].d)
                          /\ Len(doc[k].d) = 6
                          /\ Vertices(doc[k].d)
                                = {CornerOn(v, map_width, map_height)
                                      : v \in BlockCorners(r1, c1)}
                    /\ Len(merged) = 1
                    /\ Len(d200) = 6
                    /\ Vertices(d200)
                          = {CornerOn(v, 200, 200) : v \in BlockCorners(r1, c1)}

\* the map of a 2 x 2 block in the top-left corner of the window is done
C7_Witness ==
    /\ pc = "done" /\ script = "vector" /\ cell = <<100, 100>>
    /\ data = RectGrid(0, 1, 0, 1, 1)
    /\ PathIndices # {}

RECURSIVE TotalArea(_)
TotalArea(polygons) ==
    IF polygons = <<>> THEN 0
    ELSE area(Head(polygons)) + TotalArea(Tail(polygons))

\* C8: wherever an area is compared with a threshold, a polygon whose area
\* equals the threshold is retained and one strictly below it is dropped:
\* the fragments kept for the merge are those with area >= the fragment
\* threshold, the merged polygons serialized those with area >= the path
\* threshold.
C8_ThresholdInclusive ==
    (pc = "zones" /\ todo # <<>>) =>
        /\ \A poly \in Range(shapes(Mask(Raster(panel), Head(todo)))) :
              (area(poly) >= MinFragmentArea)
                  <=> (poly \in Range(Fragments(Raster(panel), Head(todo))))
        /\ \A poly \in Range(MergedNow) :
              (area(poly) >= MinPathArea)
                  <=> (create_svg_path(poly, geo.west, geo.east, geo.north,
                                       geo.south, map_width, map_height) # None)

\* C9: the threshold is applied to the merge, not to its inputs: when the
\* fragments of a class are each below the threshold and their union is at
\* or above it, the class is drawn.
C9_ThresholdAfterMerge ==
    (pc = "zones" /\ todo # <<>> /\ Head(todo) \in DOMAIN koppen_colors) =>
        LET raw == shapes(Mask(Raster(panel), Head(todo)))
        IN  (/\ \A poly \in Range(raw) : area(poly) < MinFragmentArea
             /\ TotalArea(raw) >= MinFragmentArea) =>
                ZoneDrawables(Raster(panel), Head(todo), panel) # <<>>

\* C10: in every saved drawing, every class that has a path has exactly one
\* entry in the legend of that drawing.
C10_LegendComplete ==
    (pc = "done" /\ saved) =>
        \A k \in PathIndices :
            Cardinality({j \in 1 .. Len(doc) :
                doc[j].kind = "legend_text" /\ doc[j].class = doc[k].class}) = 1

\* the positions of the legend entries of the drawing
LegendIndices == {k \in 1 .. Len(doc) : doc[k].kind = "legend_text"}

\* C11: in every saved drawing the legend lists exactly the classes that
\* have a path in some panel, and its entries are in ascending class order.
C11_LegendExact ==
    (pc = "done" /\ saved) =>
        /\ {doc[k].class : k \in LegendIndices} = {doc[k].class : k \in PathIndices}
        /\ \A j \in LegendIndices, k \in LegendIndices :
              j < k => doc[j].class < doc[k].class

\* the positions of the drawables that render a class in panel i
ClassIndices(i) ==
    {k \in 1 .. Len(doc) : doc[k].kind \in {"path", "rect"} /\ doc[k].panel = i}

\* C12: within one panel the drawables of the classes are in ascending
\* class order, in every script.
C12_ClassOrder ==
    \A i \in 0 .. NumTitles - 1 :
        \A j \in ClassIndices(i), k \in ClassIndices(i) :
            j < k => doc[j].class <= doc[k].class

\* pixels p and q share an edge
EdgeAdjacent(p, q) ==
    \/ p[1] = q[1] /\ Abs(p[2] - q[2]) = 1
    \/ p[2] = q[2] /\ Abs(p[1] - q[1]) = 1

\* the pixels of M joined to a pixel of S by a chain of edge-adjacent pixels of M
RECURSIVE ChainFrom(_, _)
ChainFrom(S, M) ==
    The({ IF N = S THEN S ELSE ChainFrom(N, M)
          : N \in {Listed(S \cup {q \in M : \E p \in S : EdgeAdjacent(p, q)})} })

\* the closed geographic ring holds the centre of pixel p (even-odd rule on
\* its vertical edges; coordinates doubled to stay in integers)
RingCovers(ring, p) ==
    LET cx == 2 * GeoX(p[2]) + cell[1]
        cy == 2 * GeoY(p[1]) - cell[2]
        lo(i) == IF ring[i][2] < ring[i + 1][2] THEN ring[i][2] ELSE ring[i + 1][2]
        hi(i) == IF ring[i][2] < ring[i + 1][2] THEN ring[i + 1][2] ELSE ring[i][2]
    IN  Cardinality({ i \in 1 .. Len(ring) - 1 :
            /\ ring[i][1] = ring[i + 1][1]
            /\ 2 * ring[i][1] > cx
            /\ 2 * lo(i) < cy
            /\ cy < 2 * hi(i) }) % 2 = 1

\* the pixels inside the exterior ring of a polygon and outside its holes
Covered(polygon) ==
    Listed({ p \in Cells :
        /\ RingCovers(polygon.exterior, p)
        /\ \A h \in Range(polygon.interiors) : ~RingCovers(h, p) })

PixelArea == cell[1] * cell[2]

Permuted(polygons, f) == [i \in 1 .. Len(polygons) |-> polygons[f[i]]]

C17_InvalidConfigRejected ==
    (pc = "projector" /\ out # Unset /\ ~ValidProjection(args)) =>
        out = ZeroDivisionError

\* the positions of the drawables of panel i
PanelIndices(i) ==
    {k \in 1 .. Len(doc) : "panel" \in DOMAIN doc[k] /\ doc[k].panel = i}

\* C18: a panel whose raster file is missing is reported once and skipped:
\* once the loop has passed it there is exactly one diagnostic that names
\* it and no drawable of it, and every panel that exists and has been passed
\* has its drawables.
C18_MissingPanelReported ==
    \A i \in 0 .. panel - 1 :
        IF tif_exists[i + 1]
        THEN PanelIndices(i) # {}
        ELSE /\ Cardinality({k \in 1 .. Len(log) :
                    log[k].msg = "Skipping" /\ log[k].panel = i}) = 1
             /\ PanelIndices(i) = {}

\* the diagnostics of a geometry failure
GeometryErrors ==
    {"Error processing zone", "Error processing climate zone", "Error creating SVG path"}

\* C19: when a geometry call raises while one class is processed, the run does
\* not abort, and the written document holds no path of that class, the log
\* holds a diagnostic of the failure, and every other class of the raster has
\* its paths.
C19_LocalRecovery ==
    fault # <<>> =>
        /\ pc # "error"
        /\ saved =>
              /\ \E k \in 1 .. Len(log) : log[k].msg \in GeometryErrors
              /\ \A v \in {data[p] : p \in Cells} \ {NoData} :
                    (\E k \in PathIndices : doc[k].class = v) <=> (v # fault[1])

RatLe(a, b) == ~RatLt(b, a)

\* the filled area of path data d holds the canvas point c (see PathCovers)
PathHolds(d, c) ==
    LET unit == Pow10(Precision)
        n == Len(d) - 1
        to(i) == IF i = n THEN d[1] ELSE d[i + 1]
        lo(i) == IF d[i][3] < to(i)[3] THEN d[i][3] ELSE to(i)[3]
        hi(i) == IF d[i][3] < to(i)[3] THEN to(i)[3] ELSE d[i][3]
    IN  Cardinality({ i \in 1 .. n :
            /\ d[i][2] = to(i)[2]
            /\ d[i][2] * c[1][2] > c[1][1] * unit
            /\ lo(i) * c[2][2] < c[2][1] * unit
            /\ c[2][1] * unit < hi(i) * c[2][2] }) % 2 = 1

\* drawable j (a path with its translation, or a rectangle) holds the point
\* c of the drawing
DrawnExtentHolds(j, c) ==
    IF doc[j].kind = "path"
    THEN PathHolds(doc[j].d, <<RatSub(c[1], RatInt(doc[j].tx)),
                               RatSub(c[2], RatInt(doc[j].ty))>>)
    ELSE /\ RatLe(doc[j].x, c[1]) /\ RatLe(c[1], RatAdd(doc[j].x, doc[j].width))
         /\ RatLe(doc[j].y, c[2]) /\ RatLe(c[2], RatAdd(doc[j].y, doc[j].height))

\* the centre of pixel p in the drawing, in panel i
DrawnCentre(p, i) ==
    The({ <<RatAdd(RatInt(XOffset(i)), c[1]), RatAdd(RatInt(YOffset), c[2])>>
          : c \in {CellCentre(p)} })

\* the site record of marker k
SiteOf(k) == CHOOSE s \in Range(study_sites) : s.name = doc[k].site

MarkerIndices == {k \in 1 .. Len(doc) : doc[k].kind = "circle"}

ProcessedPanels == {i \in 0 .. panel - 1 : tif_exists[i + 1]}

\* where the projection puts a site on the map of a panel, written out:
\* ((lon - west) / (east - west)) * W and ((north - lat) / (north - south)) * H
SiteX(s) ==
    Rat((s.lon[1] - GeoX(0) * s.lon[2]) * map_width,
        s.lon[2] * (GeoX(GridCols) - GeoX(0)))

SiteY(s) ==
    Rat((GeoY(0) * s.lat[2] - s.lat[1]) * map_height,
        s.lat[2] * (GeoY(0) - GeoY(GridRows)))

\* the point <<x, y>> lies on the map canvas [0, W] x [0, H]
OnCanvas(x, y) ==
    /\ RatLe(RatInt(0), x) /\ RatLe(x, RatInt(map_width))
    /\ RatLe(RatInt(0), y) /\ RatLe(y, RatInt(map_height))

\* C22: with show_sites, every study site has exactly one marker in every
\* panel drawn, at its projected position in that panel, and the position of
\* a site outside the window lies off the map canvas; without show_sites
\* there is no marker.
C22_SitesNeverClipped ==
    IF show_sites
    THEN \A i \in ProcessedPanels : \A n \in 1 .. Len(study_sites) :
            \A s \in {study_sites[n]} :
                /\ Cardinality({k \in MarkerIndices :
                                  doc[k].panel = i /\ doc[k].site = s.name}) = 1
                /\ \A k \in MarkerIndices :
                      (doc[k].panel = i /\ doc[k].site = s.name) =>
                          /\ doc[k].cx = RatAdd(RatInt(XOffset(i)), SiteX(s))
                          /\ doc[k].cy = RatAdd(RatInt(YOffset), SiteY(s))
                /\ SiteCellAt(s, cell) \notin Cells => ~OnCanvas(SiteX(s), SiteY(s))
    ELSE MarkerIndices = {}

\* a saved drawing holds the marker of a site that lies outside the window
C22_Witness ==
    /\ saved /\ show_sites
    /\ \E k \in MarkerIndices :
          /\ SiteCellAt(SiteOf(k), cell) \notin Cells
          /\ ~OnCanvas(RatSub(doc[k].cx, RatInt(XOffset(doc[k].panel))),
                       RatSub(doc[k].cy, RatInt(YOffset)))

\* the drawables of panel i, in the order of the drawing
PanelPart(i) == SelectSeq(doc, LAMBDA r : "panel" \in DOMAIN r /\ r.panel = i)

\* the paths of the classes vs of a raster drawn as panel i, class after class
RECURSIVE ZonesOf(_, _, _)
ZonesOf(grid, vs, i) ==
    IF vs = <<>> THEN <<>>
    ELSE ZoneDrawables(grid, Head(vs), i) \o ZonesOf(grid, Tail(vs), i)

\* what a run that draws nothing but panel i from the raster grid adds to
\* the drawing
PanelAlone(grid, i) ==
    FrameDrawables(i) \o ZonesOf(grid, ClimateValues(grid), i)
        \o (IF show_sites THEN SitesFrom(1, i) ELSE <<>>) \o TitleDrawables(i)

\* C23: in a layout, the drawables of every panel drawn are those its own
\* raster and its index give, whatever the panels before it held and whether
\* they were drawn or skipped, and they stay as they are while the panels
\* after it are drawn.
C23_PanelsIndependent ==
    script \in Layouts =>
        \A i \in ProcessedPanels :
            PanelPart(i) = PanelAlone(IF i \in swapped THEN Mirrored(data) ELSE data, i)

\* three panels are drawn and the second holds a raster that differs from
\* the first's
C23_Witness ==
    /\ script \in Layouts /\ saved
    /\ ProcessedPanels = {0, 1, 2}
    /\ swapped = {1}
    /\ Mirrored(data) # data
    /\ PanelPart(1) # <<>>

InWindow(a) ==
    /\ a.west <= a.lon /\ a.lon <= a.east
    /\ a.south <= a.lat /\ a.lat <= a.north

\* the inverse transform applied to the canvas point xy:
\* lon = west + x / W * (east - west), lat = north - y / H * (north - south)
Unprojected(xy, a) ==
    << RatAdd(RatInt(a.west),
              RatMul(RatDiv(xy[1], RatInt(a.svg_width)), RatInt(a.east - a.west))),
       RatSub(RatInt(a.north),
              RatMul(RatDiv(xy[2], RatInt(a.svg_height)), RatInt(a.north - a.south))) >>

\* C25: for a valid window and canvas and a point inside the window, the
\* inverse transform applied to the value coords_to_svg returns gives the
\* point back, and no other point of the window is projected to that value.
C25_RoundTrip ==
    (pc = "projector" /\ out # Unset /\ ValidProjection(args) /\ InWindow(args)) =>
        /\ Unprojected(out, args) = <<RatInt(args.lon), RatInt(args.lat)>>
        /\ \A lon \in ProjCoords, lat \in ProjCoords :
              \A b \in {[args EXCEPT !.lon = lon, !.lat = lat]} :
                  (InWindow(b) /\ Projected(b) = out)
                      => (lon = args.lon /\ lat = args.lat)

\* a point strictly inside a valid window has been projected to a canvas
\* position that is no whole number
C25_Witness ==
    /\ pc = "projector" /\ out # Unset /\ ValidProjection(args)
    /\ args.west < args.lon /\ args.lon < args.east
    /\ args.south < args.lat /\ args.lat < args.north
    /\ out[1][2] > 1 /\ out[2][2] > 1

\* the mask of class v as a boolean grid
MaskGrid(grid, v) == [p \in DOMAIN grid |-> p \in Mask(grid, v)]

\* C26: the mask the loop builds for a class has the dimensions of the grid
\* and is true exactly at the pixels that hold the class; the masks of two
\* different classes share no pixel, and the masks of all values > 0 together
\* are the pixels that do not hold 0.
C26_MaskExact ==
    (pc = "zones" /\ todo # <<>>) =>
        \A grid \in {Raster(panel)} :
            /\ Mask(grid, Head(todo)) \subseteq Cells
            /\ DOMAIN MaskGrid(grid, Head(todo)) = DOMAIN grid
            /\ \A p \in DOMAIN grid :
                  MaskGrid(grid, Head(todo))[p] <=> (grid[p] = Head(todo))
            /\ \A v \in Range(ClimateValues(grid)) :
                  v # Head(todo) => Mask(grid, v) \cap Mask(grid, Head(todo)) = {}
            /\ UNION {Mask(grid, v) : v \in Range(ClimateValues(grid))}
                  = {p \in DOMAIN grid : grid[p] # 0}

\* the mask of the lower of two classes is in hand, on a grid with empty
\* pixels
C26_Witness ==
    /\ pc = "zones" /\ Len(todo) >= 2
    /\ \E p \in Cells : Raster(panel)[p] = NoData
    /\ Mask(Raster(panel), Head(todo)) # {}

\* C27: a layout run in which no library call raises never ends in an
\* error, whichever raster files are missing; once the loop over the panels
\* is over and the run has ended, the legend is in the drawing and the
\* drawing is saved.
C27_LayoutAlwaysWritten ==
    (script \in Layouts /\ fault = <<>>) =>
        /\ pc # "error"
        /\ pc = "done" => (saved /\ LegendIndices # {})

\* C28: every polygon the merge returns for the kept fragments of a class
\* has an area above the fragment threshold, hence not below the threshold
\* of create_svg_path, and create_svg_path gives it a path: one path is drawn
\* for each merged polygon.
C28_MergedAlwaysDrawn ==
    (pc = "zones" /\ todo # <<>> /\ fault = <<>>
        /\ Head(todo) \in DOMAIN koppen_colors) =>
        \A merged \in {MergedNow} :
            /\ \A m \in Range(merged) :
                  /\ area(m) > MinFragmentArea
                  /\ area(m) >= MinPathArea
                  /\ create_svg_path(m, geo.west, geo.east, geo.north, geo.south,
                                     map_width, map_height) # None
            /\ Len(ZoneDrawables(Raster(panel), Head(todo), panel)) = Len(merged)

\* a merged polygon of less than twice the fragment threshold is in hand
C28_Witness ==
    /\ pc = "zones" /\ todo # <<>> /\ fault = <<>>
    /\ Head(todo) \in DOMAIN koppen_colors
    /\ \E m \in Range(MergedNow) : area(m) <= 2 * MinFragmentArea

\* the drawables of the site overlay: markers, label boxes, label texts
LabelKinds == {"label_rect", "label_text"}
LabelIndices == {k \in 1 .. Len(doc) : doc[k].kind \in LabelKinds}

\* the drawing without its site overlay
Plain(d) == SelectSeq(d, LAMBDA r : r.kind \notin LabelKinds \cup {"circle"})

\* what the panels from i on give a drawing that has no site overlay: frame,
\* class geometry and title of every panel that is not skipped
RECURSIVE PlainPanels(_)
PlainPanels(i) ==
    IF i >= panel THEN <<>>
    ELSE (IF ~tif_exists[i + 1] THEN <<>>
          ELSE FrameDrawables(i)
                 \o (IF script = "svg_maps" THEN PixelRects(Raster(i), 0)
                     ELSE ZonesOf(Raster(i), ClimateValues(Raster(i)), i))
                 \o TitleDrawables(i))
         \o PlainPanels(i + 1)

\* C29: a label box or label text is in the drawing only when show_sites and
\* show_labels are both true, and then next to the marker of the same site in
\* the same panel; without show_sites the drawing has no marker and no label
\* whatever show_labels is; and the finished drawing without its markers and
\* labels is the one the rasters give, the same for every value of the flags.
C29_OverlayFlags ==
    /\ \A k \in LabelIndices :
          /\ show_sites /\ show_labels
          /\ \E m \in MarkerIndices :
                /\ m < k /\ k <= m + 2
                /\ doc[m].panel = doc[k].panel /\ doc[m].site = doc[k].site
    /\ (show_sites /\ show_labels) =>
          \A m \in MarkerIndices : \E k \in LabelIndices :
                /\ doc[k].kind = "label_text"
                /\ doc[m].panel = doc[k].panel /\ doc[m].site = doc[k].site
    /\ ~show_sites => (MarkerIndices = {} /\ LabelIndices = {})
    /\ pc = "done" =>
          Plain(doc) = InitialDoc(script) \o PlainPanels(0)
                          \o (IF script \in Layouts THEN LegendDrawables ELSE <<>>)

\* a drawing with class geometry is saved by a run that was asked for labels
\* but not for sites
C29_Witness ==
    /\ saved /\ pc = "done"
    /\ ~show_sites /\ show_labels
    /\ \E k \in 1 .. Len(doc) : doc[k].kind \in {"path", "rect"}

\* a drawing with markers and labels is saved
C29_Labelled ==
    /\ saved /\ pc = "done"
    /\ LabelIndices # {} /\ MarkerIndices # {}

\* C30: when run_notebook_tests returns, test_results holds exactly the
\* seven checks, and the value returned is True exactly when at least five
\* of them are True; the export check is True only if the temperature
\* analyzer check is, the interactive map check only if the GEE check and
\* the study area check both are; so when the GEE check is False, True is
\* returned only if the five checks other than GEE and the map are all True.
C30_NotebookVerdict ==
    /\ pc \in {"summary", "returned"} =>
          /\ DOMAIN test_results = Range(CheckNames)
          /\ total_tests = 7
          /\ test_results["export"] => test_results["temperature_analyzer"]
          /\ test_results["interactive_map"] =>
                (test_results["gee"] /\ test_results["study_area"])
    /\ pc = "returned" =>
          /\ out \in BOOLEAN
          /\ out <=> (passed_tests >= 5)
          /\ ~test_results["gee"] =>
                (out => \A c \in Range(CheckNames) \ {"gee", "interactive_map"} :
                            test_results[c])

\* True is returned by a run whose GEE check failed
C30_Witness ==
    /\ pc = "returned"
    /\ out = TRUE
    /\ ~test_results["gee"]
    /\ passed_tests = 5

\* True is returned although a check other than GEE and the map failed
C30_OneFailure ==
    /\ pc = "returned"
    /\ out = TRUE
    /\ test_results["gee"] /\ test_results["interactive_map"]
    /\ passed_tests = 5

====
